---- MODULE Spec2Model ----
(***************************************************************************)
(* Model of the study-timer actions (createPreset, updatePreset,           *)
(* listPresets, startSession, completeSession, addInterval, listIntervals) *)
(* over the three Astro DB tables TimerPresets, FocusSessions and          *)
(* FocusIntervals.                                                         *)
(*                                                                         *)
(* A table is a sequence of rows; the autoincrement primary key of a row   *)
(* is its index (1, 2, ...).  An absent input field and a NULL column are  *)
(* both the value None.                                                    *)
(***************************************************************************)
EXTENDS Integers, Sequences, FiniteSets, TLC

VARIABLES presets, sessions, intervals, now, last, calls

vars == <<presets, sessions, intervals, now, last, calls>>

\* ---------------------------------------------------------------- bounds
MaxPresets == 2
MaxSessions == 1
MaxIntervals == 2
MaxTime == 1

\* ------------------------------------------------------------- constants
\* An optional value is None (undefined / NULL) or Some(v).
None == <<>>
Some(v) == <<v>>
Users == {"u1", "u2"}
\* context.locals.user: a signed-in user or undefined
Callers == {Some(u) : u \in Users} \cup {None}
Procs == {"A", "B"}

DefaultFocusMinutes == 25
DefaultShortBreakMinutes == 5
DefaultCounter == 0
DefaultDurationSeconds == 0

\* ids a caller may pass: 0, the ids the table can hold (used or not yet)
PresetIdInputs == 0 .. MaxPresets
SessionIdInputs == 1 .. MaxSessions

\* ---------------------------------------------------------------- inputs
NoPresetFields ==
  [name |-> None, focusMinutes |-> None, shortBreakMinutes |-> None,
   longBreakMinutes |-> None, cyclesBeforeLongBreak |-> None,
   cyclesPerBlock |-> None, isDefault |-> None]

\* Inputs createPreset's schema accepts (name is required).
CreateInputs ==
  { [NoPresetFields EXCEPT !.name = Some("Classic")],
    [NoPresetFields EXCEPT !.name = Some("Classic"),
       !.isDefault = Some(TRUE)] }

\* "rest" of updatePreset's input: every field but id.
UpdateRests ==
  { NoPresetFields,
    [NoPresetFields EXCEPT !.isDefault = Some(TRUE)],
    [NoPresetFields EXCEPT !.isDefault = Some(FALSE)] }

\* createPreset inputs that fill the optional columns as well
FieldCreates ==
  { [NoPresetFields EXCEPT !.name = Some("Classic")],
    [NoPresetFields EXCEPT !.name = Some("Deep"), !.focusMinutes = Some(50),
       !.longBreakMinutes = Some(15), !.isDefault = Some(TRUE)] }

\* updatePreset inputs that supply fields other than isDefault alone
FieldRests ==
  { [NoPresetFields EXCEPT !.name = Some("Renamed"),
       !.cyclesPerBlock = Some(2)],
    [NoPresetFields EXCEPT !.focusMinutes = Some(30),
       !.isDefault = Some(TRUE)] }

StartRests ==
  { [label |-> None, plannedFocusMinutes |-> None, plannedCycles |-> None,
     meta |-> None],
    [label |-> Some("Math"), plannedFocusMinutes |-> Some(25),
     plannedCycles |-> Some(4), meta |-> Some("m1")] }

NoCompleteFields ==
  [meta |-> None,
   actualFocusMinutes |-> None,
   actualBreakMinutes |-> None,
   completedCycles |-> None,
   status |-> None]

CompleteRests ==
  { NoCompleteFields,
    [NoCompleteFields EXCEPT !.actualFocusMinutes = Some(23),
       !.actualBreakMinutes = Some(5), !.completedCycles = Some(1),
       !.meta = Some("m2")],
    [NoCompleteFields EXCEPT !.status = Some("cancelled")],
    [NoCompleteFields EXCEPT !.status = Some("in_progress")] }

NoIntervalFields ==
  [type |-> None, startedAt |-> None, endedAt |-> None,
   durationSeconds |-> None, completed |-> None]

IntervalRests ==
  { NoIntervalFields,
    [NoIntervalFields EXCEPT !.type = Some("break"), !.startedAt = Some(0),
       !.endedAt = Some(1), !.durationSeconds = Some(300),
       !.completed = Some(TRUE)] }

\* ------------------------------------------------------- helper operators
\* a ?? b, for an optional a and a plain b
Coalesce(a, b) == IF a = None THEN b ELSE a[1]

\* JavaScript truthiness of an optional boolean and of an optional number
TruthyBool(v) == v = Some(TRUE)
TruthyNum(v) == v # None /\ v # Some(0)

EmptyInput == [fields |-> {}]

Result(op, user, input, code, ret, stmts) ==
  [op |-> op,
   user |-> user,
   input |-> input,
   code |-> code,
   ret |-> ret,
   stmts |-> stmts]

\* requireUser: the signed-in user, or the UNAUTHORIZED error
requireUser(caller) == IF caller = None THEN "UNAUTHORIZED" ELSE "ok"

\* the handler runs its first select before it calls requireUser
UnauthorizedAfterSelect(op, caller, input) ==
  /\ requireUser(caller) = "UNAUTHORIZED"
  /\ last' = Result(op, caller, input, "UNAUTHORIZED", {}, 1)
  /\ UNCHANGED <<presets, sessions, intervals, now, calls>>

\* the handler's first line: requireUser throws, nothing else has run
Unauthorized(op, caller, input) ==
  /\ requireUser(caller) = "UNAUTHORIZED"
  /\ last' = Result(op, caller, input, "UNAUTHORIZED", {}, 0)
  /\ UNCHANGED <<presets, sessions, intervals, now, calls>>

\* ------------------------------------------------ TimerPresets statements
\* the where clause compares ownerId with the wrong sign
ClearOtherOwnersPresets(P, u, t) ==
  [i \in DOMAIN P |->
     IF P[i].ownerId # u
       THEN [P[i] EXCEPT !.isDefault = FALSE, !.updatedAt = t]
       ELSE P[i]]

\* update TimerPresets set isDefault = false, updatedAt = now
\*   where ownerId = u                                (createPreset)
ClearOwnerPresets(P, u, t) ==
  [i \in DOMAIN P |->
     IF P[i].ownerId = u
       THEN [P[i] EXCEPT !.isDefault = FALSE, !.updatedAt = t]
       ELSE P[i]]

\* the where clause lacks isDefault = true, as in createPreset
ClearOwnerDefaultsAndOthers(P, u, t) ==
  [i \in DOMAIN P |->
     IF P[i].ownerId = u
       THEN [P[i] EXCEPT !.isDefault = FALSE, !.updatedAt = t]
       ELSE P[i]]

\* the where clause selects the rows that are not the default
ClearOwnerNonDefaults(P, u, t) ==
  [i \in DOMAIN P |->
     IF P[i].ownerId = u /\ P[i].isDefault = FALSE
       THEN [P[i] EXCEPT !.isDefault = FALSE, !.updatedAt = t]
       ELSE P[i]]

\* update TimerPresets set isDefault = false, updatedAt = now
\*   where ownerId = u and isDefault = true            (updatePreset)
ClearOwnerDefaults(P, u, t) ==
  [i \in DOMAIN P |->
     IF P[i].ownerId = u /\ P[i].isDefault = TRUE
       THEN [P[i] EXCEPT !.isDefault = FALSE, !.updatedAt = t]
       ELSE P[i]]

NewPreset(u, input, t) ==
  [name |-> input.name[1],
   focusMinutes |-> Coalesce(input.focusMinutes, DefaultFocusMinutes),
   shortBreakMinutes |->
     Coalesce(input.shortBreakMinutes, DefaultShortBreakMinutes),
   longBreakMinutes |-> input.longBreakMinutes,
   cyclesBeforeLongBreak |-> input.cyclesBeforeLongBreak,
   cyclesPerBlock |-> input.cyclesPerBlock,
   isDefault |-> Coalesce(input.isDefault, FALSE),
   ownerId |-> u,
   updatedAt |-> t,
   createdAt |-> t]

InsertPreset(P, u, input, t) == Append(P, NewPreset(u, input, t))

\* the select filters on id alone
FindPresetOfAnyUser(P, id, u) == id \in DOMAIN P

\* select ... where id = id and ownerId = u limit 1
FindPreset(P, id, u) == id \in DOMAIN P /\ P[id].ownerId = u

\* the keys of rest whose value is not undefined
updateData(rest) == {k \in DOMAIN rest : rest[k] # None}

\* the early return left out
NeverNothingToUpdate(rest) == FALSE

\* if (Object.keys(updateData).length === 0) return { preset: existing }
NothingToUpdate(rest) == updateData(rest) = {}

\* columns declared optional keep their value wrapped
NullablePresetColumns ==
  {"longBreakMinutes", "cyclesBeforeLongBreak", "cyclesPerBlock"}

\* updatedAt left out of the set clause
UpdatedPresetKeepingStamp(row, rest, t) ==
  [k \in DOMAIN row |->
     IF k \in updateData(rest)
       THEN IF k \in NullablePresetColumns THEN rest[k] ELSE rest[k][1]
     ELSE row[k]]

UpdatedPreset(row, rest, t) ==
  [k \in DOMAIN row |->
     IF k \in updateData(rest)
       THEN IF k \in NullablePresetColumns THEN rest[k] ELSE rest[k][1]
     ELSE IF k = "updatedAt" THEN t
     ELSE row[k]]

\* the update also clears isDefault on the owner's other rows
WritePresetClearingOthers(P, id, u, rest, t) ==
  [i \in DOMAIN P |->
     IF i = id /\ P[i].ownerId = u THEN UpdatedPreset(P[i], rest, t)
     ELSE IF P[i].ownerId = u /\ rest.isDefault = Some(TRUE)
       THEN [P[i] EXCEPT !.isDefault = FALSE]
     ELSE P[i]]

\* update TimerPresets set ...updateData, updatedAt = now
\*   where id = id and ownerId = u
WritePreset(P, id, u, rest, t) ==
  [i \in DOMAIN P |->
     IF i = id /\ P[i].ownerId = u THEN UpdatedPreset(P[i], rest, t)
     ELSE P[i]]

\* the select has no where clause
PresetsOfAnyUser(P, u) == DOMAIN P

\* select ... where ownerId = u
PresetsOf(P, u) == {i \in DOMAIN P : P[i].ownerId = u}

\* ------------------------------------------------------------ operations
createPreset(caller, input) ==
  \/ Unauthorized("createPreset", caller, input)
  \/ /\ requireUser(caller) = "ok"
     /\ Len(presets) < MaxPresets
     /\ LET user == caller[1]
            cleared == IF TruthyBool(input.isDefault)
                         THEN ClearOwnerPresets(presets, user, now)
                         ELSE presets
            stmts == IF TruthyBool(input.isDefault) THEN 2 ELSE 1
        IN /\ presets' = InsertPreset(cleared, user, input, now)
           /\ last' = Result("createPreset", caller, input, "ok",
                             {<<Len(presets'), presets'[Len(presets')]>>},
                             stmts)
     /\ UNCHANGED <<sessions, intervals, now, calls>>

updatePreset(caller, id, rest) ==
  LET input == [id |-> id, rest |-> rest] IN
  \/ Unauthorized("updatePreset", caller, input)
  \/ /\ requireUser(caller) = "ok"
     /\ ~FindPreset(presets, id, caller[1])
     /\ last' = Result("updatePreset", caller, input, "NOT_FOUND", {}, 1)
     /\ UNCHANGED <<presets, sessions, intervals, now, calls>>
  \/ /\ requireUser(caller) = "ok"
     /\ FindPreset(presets, id, caller[1])
     /\ LET user == caller[1]
            existing == presets[id]
            cleared == IF TruthyBool(rest.isDefault)
                         THEN ClearOwnerDefaults(presets, user, now)
                         ELSE presets
            nclear == IF TruthyBool(rest.isDefault) THEN 1 ELSE 0
        IN IF NothingToUpdate(rest)
             THEN /\ presets' = cleared
                  /\ last' = Result("updatePreset", caller, input, "ok",
                                    {<<id, existing>>}, 1 + nclear)
             ELSE /\ presets' = WritePreset(cleared, id, user, rest, now)
                  /\ last' = Result("updatePreset", caller, input, "ok",
                                    {<<id, presets'[id]>>}, 2 + nclear)
     /\ UNCHANGED <<sessions, intervals, now, calls>>

listPresets(caller) ==
  \/ Unauthorized("listPresets", caller, EmptyInput)
  \/ /\ requireUser(caller) = "ok"
     /\ last' = Result("listPresets", caller, EmptyInput, "ok",
                       {<<i, presets[i]>> : i \in PresetsOf(presets, caller[1])},
                       1)
     /\ UNCHANGED <<presets, sessions, intervals, now, calls>>

\* ----------------------------------------------- FocusSessions statements
NewSession(u, input, t) ==
  [label |-> input.label,
   plannedFocusMinutes |-> input.plannedFocusMinutes,
   plannedCycles |-> input.plannedCycles,
   meta |-> input.meta,
   actualFocusMinutes |-> DefaultCounter,
   actualBreakMinutes |-> DefaultCounter,
   completedCycles |-> DefaultCounter,
   status |-> "in_progress",
   startedAt |-> t,
   endedAt |-> None,
   userId |-> u,
   presetId |-> input.presetId]

InsertSession(S, u, input, t) == Append(S, NewSession(u, input, t))

\* the select filters on id alone
FindSessionOfAnyUser(S, id, u) == id \in DOMAIN S

\* select ... where id = id and userId = u limit 1
FindSession(S, id, u) == id \in DOMAIN S /\ S[id].userId = u

\* absent counters fall back to the column default, absent meta to NULL
CompleteValuesFromDefaults(session, rest, t) ==
  [meta |-> rest.meta,
   actualFocusMinutes |-> Coalesce(rest.actualFocusMinutes, DefaultCounter),
   actualBreakMinutes |-> Coalesce(rest.actualBreakMinutes, DefaultCounter),
   completedCycles |-> Coalesce(rest.completedCycles, DefaultCounter),
   status |-> Coalesce(rest.status, "completed"),
   endedAt |-> Some(t)]

\* a Session that has ended keeps its endedAt
CompleteValuesKeepingEndedAt(session, rest, t) ==
  [meta |-> IF rest.meta = None THEN session.meta ELSE rest.meta,
   actualFocusMinutes |->
     Coalesce(rest.actualFocusMinutes, session.actualFocusMinutes),
   actualBreakMinutes |->
     Coalesce(rest.actualBreakMinutes, session.actualBreakMinutes),
   completedCycles |-> Coalesce(rest.completedCycles, session.completedCycles),
   status |-> Coalesce(rest.status, "completed"),
   endedAt |-> IF session.endedAt = None THEN Some(t) ELSE session.endedAt]

\* the values completeSession sets, from its input and the row it has read
CompleteValues(session, rest, t) ==
  [meta |-> IF rest.meta = None THEN session.meta ELSE rest.meta,
   actualFocusMinutes |->
     Coalesce(rest.actualFocusMinutes, session.actualFocusMinutes),
   actualBreakMinutes |->
     Coalesce(rest.actualBreakMinutes, session.actualBreakMinutes),
   completedCycles |-> Coalesce(rest.completedCycles, session.completedCycles),
   status |-> Coalesce(rest.status, "completed"),
   endedAt |-> Some(t)]

\* update FocusSessions set ...values where id = id
WriteSession(S, id, values) ==
  [i \in DOMAIN S |->
     IF i = id
       THEN [k \in DOMAIN S[i] |->
               IF k \in DOMAIN values THEN values[k] ELSE S[i][k]]
       ELSE S[i]]

\* ---------------------------------------------- FocusIntervals statements
NewInterval(sessionId, rest, t) ==
  [type |-> Coalesce(rest.type, "focus"),
   startedAt |-> Coalesce(rest.startedAt, t),
   endedAt |-> rest.endedAt,
   durationSeconds |-> Coalesce(rest.durationSeconds, DefaultDurationSeconds),
   completed |-> Coalesce(rest.completed, FALSE),
   sessionId |-> sessionId]

InsertInterval(I, sessionId, rest, t) ==
  Append(I, NewInterval(sessionId, rest, t))

\* select ... where sessionId = sessionId
IntervalsOf(I, sessionId) == {i \in DOMAIN I : I[i].sessionId = sessionId}

startSession(caller, input) ==
  \/ Unauthorized("startSession", caller, input)
  \/ /\ requireUser(caller) = "ok"
     /\ TruthyNum(input.presetId)
     /\ ~FindPreset(presets, input.presetId[1], caller[1])
     /\ last' = Result("startSession", caller, input, "NOT_FOUND", {}, 1)
     /\ UNCHANGED <<presets, sessions, intervals, now, calls>>
  \/ /\ requireUser(caller) = "ok"
     /\ TruthyNum(input.presetId) =>
          FindPreset(presets, input.presetId[1], caller[1])
     /\ Len(sessions) < MaxSessions
     /\ sessions' = InsertSession(sessions, caller[1], input, now)
     /\ last' = Result("startSession", caller, input, "ok",
                       {<<Len(sessions'), sessions'[Len(sessions')]>>},
                       IF TruthyNum(input.presetId) THEN 2 ELSE 1)
     /\ UNCHANGED <<presets, intervals, now, calls>>

completeSession(caller, id, rest) ==
  LET input == [id |-> id, rest |-> rest] IN
  \/ Unauthorized("completeSession", caller, input)
  \/ /\ requireUser(caller) = "ok"
     /\ ~FindSession(sessions, id, caller[1])
     /\ last' = Result("completeSession", caller, input, "NOT_FOUND", {}, 1)
     /\ UNCHANGED <<presets, sessions, intervals, now, calls>>
  \/ /\ requireUser(caller) = "ok"
     /\ FindSession(sessions, id, caller[1])
     /\ LET session == sessions[id]
        IN sessions' = WriteSession(sessions, id,
                                    CompleteValues(session, rest, now))
     /\ last' = Result("completeSession", caller, input, "ok",
                       {<<id, sessions'[id]>>}, 2)
     /\ UNCHANGED <<presets, intervals, now, calls>>

addInterval(caller, sessionId, rest) ==
  LET input == [rest |-> rest,
                sessionId |-> sessionId] IN
  \/ Unauthorized("addInterval", caller, input)
  \/ /\ requireUser(caller) = "ok"
     /\ ~FindSession(sessions, sessionId, caller[1])
     /\ last' = Result("addInterval", caller, input, "NOT_FOUND", {}, 1)
     /\ UNCHANGED <<presets, sessions, intervals, now, calls>>
  \/ /\ requireUser(caller) = "ok"
     /\ FindSession(sessions, sessionId, caller[1])
     /\ Len(intervals) < MaxIntervals
     /\ intervals' = InsertInterval(intervals, sessionId, rest, now)
     /\ last' = Result("addInterval", caller, input, "ok",
                       {<<Len(intervals'), intervals'[Len(intervals')]>>}, 2)
     /\ UNCHANGED <<presets, sessions, now, calls>>

listIntervals(caller, sessionId) ==
  LET input == [sessionId |-> sessionId] IN
  \/ Unauthorized("listIntervals", caller, input)
  \/ /\ requireUser(caller) = "ok"
     /\ ~FindSession(sessions, sessionId, caller[1])
     /\ last' = Result("listIntervals", caller, input, "NOT_FOUND", {}, 1)
     /\ UNCHANGED <<presets, sessions, intervals, now, calls>>
  \/ /\ requireUser(caller) = "ok"
     /\ FindSession(sessions, sessionId, caller[1])
     /\ last' = Result("listIntervals", caller, input, "ok",
                       {<<i, intervals[i]>> :
                          i \in IntervalsOf(intervals, sessionId)}, 2)
     /\ UNCHANGED <<presets, sessions, intervals, now, calls>>

\* new Date() never goes backwards between two calls
Tick ==
  /\ now < MaxTime
  /\ now' = now + 1
  /\ UNCHANGED <<presets, sessions, intervals, last, calls>>

\* a call in flight: its handler, its arguments and the statement it is at
IdleCall ==
  [op |-> "none",
   user |-> "",
   input |-> NoPresetFields,
   id |-> 0,
   pc |-> "idle"]

Init ==
  /\ presets = <<>>
  /\ sessions = <<>>
  /\ intervals = <<>>
  /\ now = 0
  /\ last = Result("none", None, EmptyInput, "ok", {}, 0)
  /\ calls = [p \in Procs |-> IdleCall]

SignedIn == {Some(u) : u \in Users}

PlainCreate == CHOOSE i \in CreateInputs : i.isDefault = None
DefaultCreate == CHOOSE i \in CreateInputs : TruthyBool(i.isDefault)
DefaultUpdate == CHOOSE r \in UpdateRests : TruthyBool(r.isDefault)

StartInput(presetId, r) ==
  [label |-> r.label,
   plannedFocusMinutes |-> r.plannedFocusMinutes,
   plannedCycles |-> r.plannedCycles,
   meta |-> r.meta,
   presetId |-> presetId]

StartInputs ==
  { StartInput(p, r) :
      p \in {None} \cup {Some(i) : i \in PresetIdInputs}, r \in StartRests }

PlainStart == StartInput(None, CHOOSE r \in StartRests : r.meta = None)

\* startSession inputs that name no preset, or the first one
PresetOneStart == StartInput(Some(1), CHOOSE r \in StartRests : r.meta = None)

\* the seven operations on few inputs at one instant, called by one
\* signed-in user and by callers who are not signed in
SpecCallers == {Some(CHOOSE u \in Users : TRUE), None}

Next ==
  \/ \E c \in SpecCallers : createPreset(c, DefaultCreate)
  \/ \E c \in SpecCallers, id \in 1 .. MaxPresets :
       updatePreset(c, id, DefaultUpdate)
  \/ \E c \in SpecCallers : listPresets(c)
  \/ \E c \in SpecCallers, input \in {PlainStart, PresetOneStart} :
       startSession(c, input)
  \/ \E c \in SpecCallers, id \in SessionIdInputs :
       completeSession(c, id, NoCompleteFields)
  \/ \E c \in SpecCallers, id \in SessionIdInputs :
       addInterval(c, id, NoIntervalFields)
  \/ \E c \in SpecCallers, id \in SessionIdInputs : listIntervals(c, id)

Spec == Init /\ [][Next]_vars

\* createPreset and updatePreset with every input of a signed-in user, and
\* one call of each without a signed-in user
NextPreset ==
  \/ \E c \in SignedIn, input \in CreateInputs : createPreset(c, input)
  \/ \E c \in SignedIn, id \in PresetIdInputs, rest \in UpdateRests :
       updatePreset(c, id, rest)
  \/ createPreset(None, DefaultCreate)
  \/ updatePreset(None, 1, DefaultUpdate)
  \/ Tick

SpecPreset == Init /\ [][NextPreset]_vars

\* startSession with every presetId, over presets created plainly
NextStart ==
  \/ \E c \in SignedIn : createPreset(c, PlainCreate)
  \/ \E c \in SignedIn, input \in StartInputs : startSession(c, input)
  \/ createPreset(None, PlainCreate)
  \/ startSession(None, PresetOneStart)
  \/ Tick

SpecStart == Init /\ [][NextStart]_vars

\* startSession where no presets exist, and completeSession with every input
NextSession ==
  \/ \E c \in SignedIn, r \in StartRests, p \in {None, Some(1)} :
       startSession(c, StartInput(p, r))
  \/ \E c \in SignedIn, id \in SessionIdInputs, rest \in CompleteRests :
       completeSession(c, id, rest)
  \/ startSession(None, PlainStart)
  \/ completeSession(None, 1, NoCompleteFields)
  \/ Tick

SpecSession == Init /\ [][NextSession]_vars

\* addInterval and listIntervals with every input, over plain sessions
NextInterval ==
  \/ \E c \in SignedIn, input \in {PlainStart, PresetOneStart} :
       startSession(c, input)
  \/ \E c \in SignedIn, id \in SessionIdInputs, rest \in IntervalRests :
       addInterval(c, id, rest)
  \/ \E c \in SignedIn, id \in SessionIdInputs : listIntervals(c, id)
  \/ startSession(None, PlainStart)
  \/ addInterval(None, 1, NoIntervalFields)
  \/ listIntervals(None, 1)
  \/ Tick

SpecInterval == Init /\ [][NextInterval]_vars

\* createPreset and updatePreset with inputs that fill and change the
\* columns other than isDefault
NextFields ==
  \/ \E c \in SpecCallers \ {None}, input \in FieldCreates :
       createPreset(c, input)
  \/ \E c \in SpecCallers \ {None}, id \in PresetIdInputs,
        rest \in FieldRests :
       updatePreset(c, id, rest)
  \/ createPreset(None, PlainCreate)
  \/ \E rest \in FieldRests : updatePreset(None, 1, rest)
  \/ Tick

SpecFields == Init /\ [][NextFields]_vars

\* the seven operations called by either user and by callers who are not
\* signed in, on few inputs at one instant
NextOwners ==
  \/ \E c \in Callers : createPreset(c, DefaultCreate)
  \/ \E c \in Callers, id \in 1 .. MaxPresets :
       updatePreset(c, id, DefaultUpdate)
  \/ \E c \in Callers : listPresets(c)
  \/ \E c \in Callers : startSession(c, PresetOneStart)
  \/ \E c \in Callers, id \in SessionIdInputs :
       completeSession(c, id, NoCompleteFields)
  \/ \E c \in Callers, id \in SessionIdInputs :
       addInterval(c, id, NoIntervalFields)
  \/ \E c \in Callers, id \in SessionIdInputs : listIntervals(c, id)

SpecOwners == Init /\ [][NextOwners]_vars

\* one user's Session completed again and again as time passes
NextRecomplete ==
  \/ \E c \in SpecCallers, input \in {PlainStart, PresetOneStart} :
       startSession(c, input)
  \/ \E c \in SpecCallers, id \in SessionIdInputs, rest \in CompleteRests :
       completeSession(c, id, rest)
  \/ Tick

SpecRecomplete == Init /\ [][NextRecomplete]_vars

\* --------------------------------------------------------------- races
\* createPreset and updatePreset of two callers in flight at once: every
\* awaited store statement is one atomic step.
PendingInserts ==
  Cardinality({p \in Procs : calls[p].op = "createPreset"
                              /\ calls[p].pc \in {"clear", "write"}})

\* createPreset up to its first statement
BeginCreate(p, caller, input) ==
  /\ calls[p].pc = "idle"
  /\ requireUser(caller) = "ok"
  /\ Len(presets) + PendingInserts < MaxPresets
  /\ calls' = [calls EXCEPT ![p] =
                 [op |-> "createPreset",
                  user |-> caller[1],
                  input |-> input,
                  id |-> 0,
                  pc |-> IF TruthyBool(input.isDefault) THEN "clear"
                                                        ELSE "write"]]
  /\ UNCHANGED <<presets, sessions, intervals, now, last>>

\* updatePreset up to its first statement
BeginUpdate(p, caller, id, rest) ==
  /\ calls[p].pc = "idle"
  /\ requireUser(caller) = "ok"
  /\ calls' = [calls EXCEPT ![p] =
                 [op |-> "updatePreset",
                  user |-> caller[1],
                  input |-> rest,
                  id |-> id,
                  pc |-> "select"]]
  /\ UNCHANGED <<presets, sessions, intervals, now, last>>

\* updatePreset: select the existing row, then NOT_FOUND, the early return,
\* or on to the next statement
SelectStep(p) ==
  LET c == calls[p] IN
  /\ c.pc = "select"
  /\ calls' = [calls EXCEPT ![p] =
                 IF ~FindPreset(presets, c.id, c.user) THEN IdleCall
                 ELSE IF TruthyBool(c.input.isDefault)
                   THEN [c EXCEPT !.pc = "clear"]
                 ELSE IF NothingToUpdate(c.input) THEN IdleCall
                 ELSE [c EXCEPT !.pc = "write"]]
  /\ UNCHANGED <<presets, sessions, intervals, now, last>>

\* the statement that clears isDefault
ClearStep(p) ==
  LET c == calls[p] IN
  /\ c.pc = "clear"
  /\ presets' = IF c.op = "createPreset"
                  THEN ClearOwnerPresets(presets, c.user, now)
                  ELSE ClearOwnerDefaults(presets, c.user, now)
  /\ calls' = [calls EXCEPT ![p] = [c EXCEPT !.pc = "write"]]
  /\ UNCHANGED <<sessions, intervals, now, last>>

\* the insert or the update of the call's own row
WriteStep(p) ==
  LET c == calls[p] IN
  /\ c.pc = "write"
  /\ presets' = IF c.op = "createPreset"
                  THEN InsertPreset(presets, c.user, c.input, now)
                  ELSE WritePreset(presets, c.id, c.user, c.input, now)
  /\ calls' = [calls EXCEPT ![p] = IdleCall]
  /\ UNCHANGED <<sessions, intervals, now, last>>

NextRace ==
  \/ \E p \in Procs, c \in SignedIn, input \in CreateInputs :
       BeginCreate(p, c, input)
  \/ \E p \in Procs, c \in SignedIn, id \in PresetIdInputs,
        rest \in {NoPresetFields, DefaultUpdate} : BeginUpdate(p, c, id, rest)
  \/ \E p \in Procs : SelectStep(p)
  \/ \E p \in Procs : ClearStep(p)
  \/ \E p \in Procs : WriteStep(p)
  \/ Tick

SpecRace == Init /\ [][NextRace]_vars

\* completeSession of two callers in flight at once: the select and the
\* update are awaited one after the other, each one atomic step; each
\* process makes one call.
BeginComplete(p, caller, id, rest) ==
  /\ calls[p].pc = "idle"
  /\ requireUser(caller) = "ok"
  /\ calls' = [calls EXCEPT ![p] =
                 [op |-> "completeSession",
                  user |-> caller[1],
                  input |-> rest,
                  id |-> id,
                  pc |-> "read"]]
  /\ UNCHANGED <<presets, sessions, intervals, now, last>>

\* select the Session by id and userId: NOT_FOUND, or keep the row read
ReadStep(p) ==
  LET c == calls[p] IN
  /\ c.pc = "read"
  /\ calls' = [calls EXCEPT ![p] =
                 IF ~FindSession(sessions, c.id, c.user) THEN IdleCall
                 ELSE [op |-> c.op,
                       user |-> c.user,
                       input |-> c.input,
                       id |-> c.id,
                       session |-> sessions[c.id],
                       pc |-> "update"]]
  /\ UNCHANGED <<presets, sessions, intervals, now, last>>

\* the update, with the values computed from the row read earlier
UpdateStep(p) ==
  LET c == calls[p] IN
  /\ c.pc = "update"
  /\ sessions' = WriteSession(sessions, c.id,
                              CompleteValues(c.session, c.input, now))
  /\ calls' = [calls EXCEPT ![p] = [c EXCEPT !.pc = "done"]]
  /\ UNCHANGED <<presets, intervals, now, last>>

NextCompleteRace ==
  \/ \E c \in SignedIn, r \in StartRests, p \in {None, Some(1)} :
       startSession(c, StartInput(p, r))
  \/ startSession(None, PlainStart)
  \/ \E p \in Procs, c \in SignedIn, id \in SessionIdInputs,
        rest \in CompleteRests : BeginComplete(p, c, id, rest)
  \/ \E p \in Procs : ReadStep(p)
  \/ \E p \in Procs : UpdateStep(p)

SpecCompleteRace == Init /\ [][NextCompleteRace]_vars

\* ---------------------------------------------------------------- claims
\* ownership as the tables record it
OwnsPreset(u, id) == id \in DOMAIN presets /\ presets[id].ownerId = u
OwnsSession(u, id) == id \in DOMAIN sessions /\ sessions[id].userId = u

DefaultsOf(u) == {i \in PresetsOf(presets, u) : presets[i].isDefault = TRUE}

\* C1: after any sequence of complete createPreset/updatePreset calls, every
\* user owns at most one Preset with isDefault = true.
AtMostOneDefault == \A u \in Users : Cardinality(DefaultsOf(u)) <= 1

\* a user's second Preset has just been made the default by updatePreset
DefaultMoved ==
  /\ last.op = "updatePreset"
  /\ last.code = "ok"
  /\ TruthyBool(last.input.rest.isDefault)
  /\ Cardinality(PresetsOf(presets, last.user[1])) >= 2
  /\ DefaultsOf(last.user[1]) = {last.input.id}

\* C2: a Session's status only ever changes from in_progress to completed
\* or from in_progress to cancelled.
StatusOnlyLeavesInProgress ==
  [][\A i \in DOMAIN sessions :
       sessions'[i].status # sessions[i].status =>
         /\ sessions[i].status = "in_progress"
         /\ sessions'[i].status \in {"completed", "cancelled"}]_vars

\* C3: every Session has endedAt set if and only if its status is not
\* in_progress.
EndedAtIffNotInProgress ==
  \A i \in DOMAIN sessions :
    (sessions[i].endedAt # None) <=> (sessions[i].status # "in_progress")

\* C4: startSession with a presetId that is not the id of a Preset of the
\* caller fails with NOT_FOUND and creates no Session row.
StartSessionRejectsForeignPreset ==
  [][(/\ last'.op = "startSession"
      /\ last'.user # None
      /\ last'.input.presetId # None
      /\ ~OwnsPreset(last'.user[1], last'.input.presetId[1]))
     => (last'.code = "NOT_FOUND" /\ sessions' = sessions)]_vars

\* C5: with the statements of two calls interleaved, the statement that
\* clears isDefault leaves its caller with zero default Presets, and a write
\* of isDefault = true that follows while another Preset of the caller is
\* the default leaves the caller with two default Presets.
RaceLeavesZeroOrTwoDefaults ==
  [][\A p \in Procs :
       /\ (calls[p].pc = "clear" /\ calls'[p].pc = "write")
            => Cardinality({i \in PresetsOf(presets', calls[p].user) :
                             presets'[i].isDefault = TRUE}) = 0
       /\ (/\ calls[p].pc = "write"
           /\ calls'[p].pc = "idle"
           /\ TruthyBool(calls[p].input.isDefault)
           /\ DefaultsOf(calls[p].user) \ {calls[p].id} # {})
            => Cardinality({i \in PresetsOf(presets', calls[p].user) :
                             presets'[i].isDefault = TRUE}) = 2]_vars

\* both calls have returned and a user is left with two default Presets
TwoDefaultsAfterRace ==
  /\ \A p \in Procs : calls[p].pc = "idle"
  /\ \E u \in Users : Cardinality(DefaultsOf(u)) = 2

CounterFields ==
  {"actualFocusMinutes", "actualBreakMinutes", "completedCycles", "meta"}

\* C6: completeSession by the owner leaves every field among
\* actualFocusMinutes, actualBreakMinutes, completedCycles and meta that is
\* absent from its input equal to the Session's value before the call.
AbsentFieldsPreserved ==
  [][(last'.op = "completeSession" /\ last'.code = "ok")
     => \A k \in CounterFields :
          last'.input.rest[k] = None
            => sessions'[last'.input.id][k] = sessions[last'.input.id][k]]_vars

\* completeSession without any field on a Session whose counters and meta
\* an earlier call had set
CountersKept ==
  /\ last.op = "completeSession"
  /\ last.code = "ok"
  /\ last.input.rest = NoCompleteFields
  /\ sessions[last.input.id].actualFocusMinutes = 23
  /\ sessions[last.input.id].completedCycles = 1
  /\ sessions[last.input.id].meta = Some("m2")

\* C7: completeSession with the id of a Session of another user, or of no
\* Session, fails with NOT_FOUND and leaves every Session row unchanged.
CompleteForeignSessionFails ==
  [][(/\ last'.op = "completeSession"
      /\ last'.user # None
      /\ ~OwnsSession(last'.user[1], last'.input.id))
     => (last'.code = "NOT_FOUND" /\ sessions' = sessions)]_vars

\* completeSession has been refused on an existing Session of another user
ForeignCompleteRefused ==
  /\ last.op = "completeSession"
  /\ last.code = "NOT_FOUND"
  /\ last.input.id \in DOMAIN sessions
  /\ sessions[last.input.id].userId # last.user[1]
  /\ sessions[last.input.id].status = "in_progress"

\* C8: addInterval and listIntervals with the sessionId of a Session the
\* caller does not own fail with NOT_FOUND, and no Interval row is inserted:
\* the Intervals of every Session are the same as before the call.
ForeignIntervalCallFails ==
  [][(/\ last'.op \in {"addInterval", "listIntervals"}
      /\ last'.user # None
      /\ ~OwnsSession(last'.user[1], last'.input.sessionId))
     => /\ last'.code = "NOT_FOUND"
        /\ intervals' = intervals
        /\ \A i \in DOMAIN sessions :
             IntervalsOf(intervals', i) = IntervalsOf(intervals, i)]_vars

\* addInterval has been refused on an existing Session of another user that
\* has Intervals
ForeignAddRefused ==
  /\ last.op = "addInterval"
  /\ last.code = "NOT_FOUND"
  /\ last.input.sessionId \in DOMAIN sessions
  /\ sessions[last.input.sessionId].userId # last.user[1]
  /\ IntervalsOf(intervals, last.input.sessionId) # {}
  /\ Len(intervals) < MaxIntervals

\* C9: updatePreset by the owner with an id and no other field succeeds,
\* returns the existing Preset and writes nothing: every Preset row is
\* unchanged.
EmptyUpdateWritesNothing ==
  [][(/\ last'.op = "updatePreset"
      /\ last'.user # None
      /\ OwnsPreset(last'.user[1], last'.input.id)
      /\ last'.input.rest = NoPresetFields)
     => /\ last'.code = "ok"
        /\ presets' = presets
        /\ last'.ret = {<<last'.input.id, presets[last'.input.id]>>}]_vars

\* updatePreset without fields has returned a default Preset written earlier
EmptyUpdateDone ==
  /\ last.op = "updatePreset"
  /\ last.code = "ok"
  /\ last.input.rest = NoPresetFields
  /\ presets[last.input.id].updatedAt < now
  /\ presets[last.input.id].isDefault = TRUE

\* C10: each of the seven operations, called without a signed-in user,
\* fails with UNAUTHORIZED before any store statement and leaves every
\* Preset, Session and Interval row unchanged.
AnonymousCallFails ==
  [][(last'.op # "none" /\ last'.user = None)
     => /\ last'.code = "UNAUTHORIZED"
        /\ last'.stmts = 0
        /\ UNCHANGED <<presets, sessions, intervals>>]_vars

\* a call without a signed-in user has been refused while every table has rows
AnonymousRefused ==
  /\ last.code = "UNAUTHORIZED"
  /\ last.user = None
  /\ presets # <<>>
  /\ sessions # <<>>
  /\ intervals # <<>>

\* the Presets of u that are the default after a step
DefaultsOfNext(u) ==
  {i \in DOMAIN presets' :
     presets'[i].ownerId = u /\ presets'[i].isDefault = TRUE}

\* the last call is a createPreset or an updatePreset that has succeeded
\* with isDefault = true
SetsDefault(r) ==
  /\ r.code = "ok"
  /\ \/ r.op = "createPreset" /\ r.input.isDefault = Some(TRUE)
     \/ r.op = "updatePreset" /\ r.input.rest.isDefault = Some(TRUE)

\* the id of the Preset a createPreset or updatePreset call has returned
ReturnedId(r) == CHOOSE i \in DOMAIN presets' : \E x \in r.ret : x[1] = i

\* C11: after a createPreset or an updatePreset by the owner with
\* isDefault = true, run as one step, the created or updated Preset is the
\* only Preset of the caller with isDefault = true.
NewDefaultIsOnlyDefault ==
  [][(SetsDefault(last') /\ now' = now)
     => DefaultsOfNext(last'.user[1]) = {ReturnedId(last')}]_vars

\* createPreset with isDefault = true has returned the caller's second
\* Preset, which is the caller's only default
CreatedDefaultReplaces ==
  /\ last.op = "createPreset"
  /\ last.code = "ok"
  /\ last.input.isDefault = Some(TRUE)
  /\ Cardinality(PresetsOf(presets, last.user[1])) >= 2
  /\ DefaultsOf(last.user[1]) = {Len(presets)}
  /\ presets[Len(presets)].createdAt > 0

\* C13: updatePreset with an id that is not the id of a Preset of the
\* caller fails with NOT_FOUND after its select alone, and no Preset of any
\* user is changed.
UpdateForeignPresetFails ==
  [][(/\ last'.op = "updatePreset"
      /\ last'.user # None
      /\ ~OwnsPreset(last'.user[1], last'.input.id))
     => /\ last'.code = "NOT_FOUND"
        /\ last'.stmts = 1
        /\ presets' = presets]_vars

\* updatePreset with isDefault = true has been refused on a Preset of
\* another user while the caller has a default Preset
ForeignUpdateRefused ==
  /\ last.op = "updatePreset"
  /\ last.code = "NOT_FOUND"
  /\ last.input.rest.isDefault = Some(TRUE)
  /\ last.input.id \in DOMAIN presets
  /\ presets[last.input.id].ownerId # last.user[1]
  /\ DefaultsOf(last.user[1]) # {}

\* C12: a successful updatePreset with at least one field supplied sets
\* the supplied fields of the target to the supplied values and updatedAt to
\* the time of the call; every other column, ownerId and createdAt included,
\* keeps the value it had (the id is the row's position, which never moves).
SuppliedFieldsWritten ==
  [][(/\ last'.op = "updatePreset"
      /\ last'.code = "ok"
      /\ last'.input.rest # NoPresetFields
      /\ now' = now)
     => LET rest == last'.input.rest
            old == presets[last'.input.id]
            new == presets'[last'.input.id]
        IN /\ Len(presets') = Len(presets)
           /\ \A k \in DOMAIN old :
                new[k] = IF k \in DOMAIN rest /\ rest[k] # None
                           THEN IF k \in {"longBreakMinutes",
                                          "cyclesBeforeLongBreak",
                                          "cyclesPerBlock"}
                                  THEN rest[k] ELSE rest[k][1]
                         ELSE IF k = "updatedAt" THEN now
                         ELSE old[k]]_vars

\* a Preset created with its own focusMinutes and longBreakMinutes has been
\* renamed at a later time and has kept them
RenamedKeepsFields ==
  /\ last.op = "updatePreset"
  /\ last.code = "ok"
  /\ last.input.rest.name = Some("Renamed")
  /\ LET row == presets[last.input.id]
     IN /\ row.name = "Renamed"
        /\ row.cyclesPerBlock = Some(2)
        /\ row.focusMinutes = 50
        /\ row.longBreakMinutes = Some(15)
        /\ row.createdAt < row.updatedAt

\* C14: in every reachable state, every Session whose presetId is present
\* references an existing Preset whose ownerId is the Session's userId.
SessionPresetBelongsToUser ==
  \A i \in DOMAIN sessions :
    sessions[i].presetId # None
      => OwnsPreset(sessions[i].userId, sessions[i].presetId[1])

PresetOps == {"createPreset", "updatePreset", "listPresets"}
SessionOps == {"startSession", "completeSession"}
IntervalOps == {"addInterval", "listIntervals"}

RecompleteOverwrites ==
  [][(/\ last'.op = "completeSession"
      /\ last'.user # None
      /\ OwnsSession(last'.user[1], last'.input.id)
      /\ sessions[last'.input.id].status \in {"completed", "cancelled"}
      /\ now' = now)
     => /\ last'.code = "ok"
        /\ sessions'[last'.input.id].endedAt = Some(now)
        /\ sessions'[last'.input.id].status =
             IF last'.input.rest.status = None
               THEN "completed"
               ELSE last'.input.rest.status[1]]_vars

\* a Session that had ended before has been completed again, with no
\* status, at a later time
RecompletedLater ==
  /\ last.op = "completeSession"
  /\ last.code = "ok"
  /\ last.input.rest = NoCompleteFields
  /\ LET s == sessions[last.input.id]
     IN /\ s.status = "completed"
        /\ s.actualFocusMinutes = 23
        /\ s.startedAt = 0
        /\ s.endedAt = Some(1)

\* the counters and meta one completeSession call leaves, run on its own
\* on a Session with the counters and meta of row
CountersAfter(row, rest) ==
  [k \in CounterFields |->
     IF rest[k] = None THEN row[k]
     ELSE IF k = "meta" THEN rest[k] ELSE rest[k][1]]

\* C17: when two completeSession calls by the owner for the same Session
\* interleave, each a read followed by a separate write, the final
\* actualFocusMinutes, actualBreakMinutes, completedCycles and meta equal the
\* result of running the two calls one after the other in some order.
InterleavedCompletesSerialize ==
  (/\ \A p \in Procs : calls[p].pc = "done"
   /\ calls["A"].id = calls["B"].id)
    => LET base == IF calls["A"].session.endedAt = None
                     THEN calls["A"].session
                     ELSE calls["B"].session
           final == [k \in CounterFields |-> sessions[calls["A"].id][k]]
       IN \E p, q \in Procs :
            /\ p # q
            /\ final = CountersAfter(
                         [k \in CounterFields |->
                            CountersAfter(base, calls[p].input)[k]],
                         calls[q].input)

\* the row a clearing update leaves: isDefault false, updatedAt the time of
\* the call
ClearedRow(row) == [row EXCEPT !.isDefault = FALSE, !.updatedAt = now]

\* C18 as stated: a createPreset or updatePreset call that sets
\* isDefault = true changes, among the caller's other Presets, only those
\* that were default, clearing isDefault and refreshing updatedAt; every
\* other Preset of the caller is left unchanged, updatedAt included.
OnlyDefaultsCleared ==
  [][(SetsDefault(last') /\ now' = now)
     => \A i \in DOMAIN presets :
          (i # ReturnedId(last') /\ presets[i].ownerId = last'.user[1])
            => presets'[i] = IF presets[i].isDefault
                               THEN ClearedRow(presets[i])
                               ELSE presets[i]]_vars

\* C18, amended: updatePreset with isDefault = true changes, among the
\* caller's other Presets, only those that were default; createPreset with
\* isDefault = true clears isDefault and refreshes updatedAt on every
\* existing Preset of the caller, default or not; the Presets of other
\* users are left unchanged by both.
CreateClearsAllUpdateClearsDefaults ==
  [][(SetsDefault(last') /\ now' = now)
     => \A i \in DOMAIN presets :
          i # ReturnedId(last')
            => presets'[i] =
                 IF presets[i].ownerId # last'.user[1] THEN presets[i]
                 ELSE IF last'.op = "createPreset" \/ presets[i].isDefault
                   THEN ClearedRow(presets[i])
                 ELSE presets[i]]_vars

\* createPreset with isDefault = true has refreshed updatedAt of the
\* caller's earlier Preset at a later time
CreateTouchedEarlierPreset ==
  /\ last.op = "createPreset"
  /\ last.code = "ok"
  /\ last.input.isDefault = Some(TRUE)
  /\ Len(presets) = 2
  /\ presets[1].ownerId = last.user[1]
  /\ presets[1].isDefault = FALSE
  /\ presets[1].createdAt = 0
  /\ presets[1].updatedAt = 1
  /\ presets[2].createdAt = 1
====
